---------------------------- MODULE Spec2Model ----------------------------
(***************************************************************************)
(* Model of the invoice extraction-and-routing pipeline (src/src/main.py,  *)
(* step2_body_tools.py, step3_extract_company_invoice.py,                  *)
(* step4_pdf_pod.py).                                                      *)
(*                                                                         *)
(* Text is a sequence of one-character strings.  The accented Hungarian    *)
(* letters are written as two-character tokens ("e'" for e-acute, "o:" for *)
(* o-double-acute, ...), each token standing for ONE character.            *)
(* Optional[str] is a sequence too: None is the one-token sequence         *)
(* <<"None">>, whose token is no character of any text.                    *)
(***************************************************************************)
EXTENDS Integers, Sequences, FiniteSets, TLC

VARIABLES
    pages,      \* POD locator: the page texts of the opened document
    located,    \* POD locator: the value extract_pod_from_pdf returned
    ppc,        \* POD locator: "open" before the call, "done" after it
    arg,        \* string functions: the input string
    res,        \* string functions: the result of the call
    res2,       \* string functions: the result of the call on that result
    fpc,        \* string functions: "input", then the function applied
    mailbox,    \* Outlook: UnRead and FlagStatus of the message of the loop
    message,    \* main: the message of the loop (its number and its Body)
    todo,       \* main: the attachments of the message not yet handed over
    had_successful_save,    \* main: the flag of the message of the loop
    mpc,        \* main: where the run stands
    proc,       \* process_attachment: the locals of each running call
    fs,         \* the files of the destination directories: path -> version
    dirs,       \* the destination directories that exist
    temps,      \* the temporary directories: number -> the file names in it
    serialized, \* parallel callers: they take the lock of the destination
    lock        \* parallel callers: destination -> holder (0: free)

podVars == <<pages, located, ppc>>

funVars == <<arg, res, res2, fpc>>

\* what main keeps for itself
mainVars == <<message, todo, had_successful_save, mpc>>

\* what process_attachment reads and writes
callVars == <<mailbox, proc, fs, dirs, temps>>

lockVars == <<serialized, lock>>

\* what no step of process_attachment touches
restVars == <<message, todo, had_successful_save, mpc, serialized, lock,
              pages, located, ppc, arg, res, res2, fpc>>

\* what main does not touch
otherVars == <<serialized, lock, pages, located, ppc, arg, res, res2, fpc>>

pipeVars == <<mailbox, message, todo, had_successful_save, mpc, proc, fs, dirs,
              temps, serialized, lock>>

vars == <<pages, located, ppc, arg, res, res2, fpc, mailbox, message, todo,
          had_successful_save, mpc, proc, fs, dirs, temps, serialized, lock>>

---------------------------------------------------------------------------
(* Characters *)

NoneVal == <<"None">>

\* the value of v, computed once, handed to Body
Let(v, Body(_)) == CHOOSE r \in {Body(x) : x \in {v}} : TRUE

Truthy(s) == Let(s, LAMBDA x : x # NoneVal /\ x # <<>>)

Min(a, b) == Let(a, LAMBDA x : Let(b, LAMBDA y : IF x < y THEN x ELSE y))

SetMax(S) == CHOOSE x \in S : \A y \in S : y <= x

SetMin(S) == CHOOSE x \in S : \A y \in S : x <= y

Range(f) == {f[i] : i \in DOMAIN f}

Digit == {"0", "1", "2", "3", "4", "5", "6", "7", "8", "9"}

LowerAscii == <<"a", "b", "c", "d", "e", "f", "g", "h", "i", "j", "k", "l", "m",
                "n", "o", "p", "q", "r", "s", "t", "u", "v", "w", "x", "y", "z">>

UpperAscii == <<"A", "B", "C", "D", "E", "F", "G", "H", "I", "J", "K", "L", "M",
                "N", "O", "P", "Q", "R", "S", "T", "U", "V", "W", "X", "Y", "Z">>

\* a-acute, e-acute, i-acute, o-acute, o-diaeresis, o-double-acute, u-acute,
\* u-diaeresis
LowerAccent == <<"a'", "e'", "i'", "o'", "o.", "o:", "u'", "u.">>

UpperAccent == <<"A'", "E'", "I'", "O'", "O.", "O:", "U'", "U.">>

LowerAZ == LowerAscii \o LowerAccent

UpperAZ == UpperAscii \o UpperAccent

AsciiLetter == Range(LowerAscii) \cup Range(UpperAscii)

Letter == Range(LowerAZ) \cup Range(UpperAZ)

UpperTab == [c \in Range(LowerAZ) |-> UpperAZ[CHOOSE i \in DOMAIN LowerAZ : LowerAZ[i] = c]]

LowerTab == [c \in Range(UpperAZ) |-> LowerAZ[CHOOSE i \in DOMAIN UpperAZ : UpperAZ[i] = c]]

\* str.upper() / str.lower() on one character
upper_char(c) == IF c \in DOMAIN UpperTab THEN UpperTab[c] ELSE c

lower_char(c) == IF c \in DOMAIN LowerTab THEN LowerTab[c] ELSE c

upper(str) == Let(str, LAMBDA s : [i \in 1..Len(s) |-> upper_char(s[i])])

lower(str) == Let(str, LAMBDA s : [i \in 1..Len(s) |-> lower_char(s[i])])

\* the no-break space U+00A0 (one character)
Nbsp == "nbsp"

\* regex \s, and what str.strip() removes
IsSpace(c) == c \in {" ", "\n", "\t", "\r", Nbsp}

\* regex \w (Unicode: letters with accents are word characters)
IsWord(c) == c \in Digit \/ c \in Letter \/ c = "_"

\* regex [A-Z0-9] under re.IGNORECASE
IsAlnum(c) == c \in Digit \/ c \in AsciiLetter

\* IDCH = [A-Z0-9\-] under re.IGNORECASE
IDCH(c) == IsAlnum(c) \/ c = "-"

startswith(str, w) ==
    Let(str, LAMBDA s : Len(s) >= Len(w) /\ SubSeq(s, 1, Len(w)) = w)

---------------------------------------------------------------------------
(* step4_pdf_pod.py: regular expressions.  A position is the 1-based index *)
(* of the next character to read; position 0 means "no match".            *)

\* a literal, compared case-insensitively (w is written in lower case)
Lit(t, pos, w) ==
    Let(pos, LAMBDA p :
        IF p = 0 \/ p + Len(w) - 1 > Len(t) THEN 0
        ELSE IF \A i \in 1..Len(w) : lower_char(t[p + i - 1]) = w[i] THEN p + Len(w)
        ELSE 0)

\* one character of a class [..] (S is written in lower case)
Cls(t, pos, S) ==
    Let(pos, LAMBDA p :
        IF p = 0 \/ p > Len(t) THEN 0
        ELSE IF lower_char(t[p]) \in S THEN p + 1 ELSE 0)

\* [..]?
OptCls(t, pos, S) ==
    Let(pos, LAMBDA p :
        IF p = 0 THEN 0
        ELSE IF p <= Len(t) /\ lower_char(t[p]) \in S THEN p + 1 ELSE p)

\* (?:w)?
OptLit(t, pos, w) ==
    Let(pos, LAMBDA p :
        IF p = 0 THEN 0
        ELSE Let(Lit(t, p, w), LAMBDA q : IF q # 0 THEN q ELSE p))

\* \s*
Spaces0(t, pos) ==
    Let(pos, LAMBDA p :
        IF p = 0 THEN 0
        ELSE SetMin({q \in p..(Len(t) + 1) : q > Len(t) \/ ~IsSpace(t[q])}))

\* \s+
Spaces1(t, pos) ==
    Let(pos, LAMBDA p :
        IF p = 0 \/ p > Len(t) THEN 0
        ELSE IF IsSpace(t[p]) THEN Spaces0(t, p + 1) ELSE 0)

\* LABEL = m[e'e]r[o:o]?(?:si)?\s*pont\s+azonos[i'i]t[o'o](?:ja)?\s*:?\s*
\* Every optional or repeated element is followed by one that cannot start
\* with what it consumes, so the greedy choice is the only match.
LABEL(t, p) ==
    LET p1 == Lit(t, p, <<"m">>)
        p2 == Cls(t, p1, {"e'", "e"})
        p3 == Lit(t, p2, <<"r">>)
        p4 == OptCls(t, p3, {"o:", "o"})
        p5 == OptLit(t, p4, <<"s", "i">>)
        p6 == Spaces0(t, p5)
        p7 == Lit(t, p6, <<"p", "o", "n", "t">>)
        p8 == Spaces1(t, p7)
        p9 == Lit(t, p8, <<"a", "z", "o", "n", "o", "s">>)
        p10 == Cls(t, p9, {"i'", "i"})
        p11 == Lit(t, p10, <<"t">>)
        p12 == Cls(t, p11, {"o'", "o"})
        p13 == OptLit(t, p12, <<"j", "a">>)
        p14 == Spaces0(t, p13)
        p15 == OptCls(t, p14, {":"})
    IN  Spaces0(t, p15)

\* {6,40}: the interior length range of the patterns
MinInner == 6

MaxInner == 40

\* the last index of the maximal run of IDCH characters starting at p
\* (p - 1 when there is none)
IdRunEnd(t, p) ==
    SetMin({q \in p..(Len(t) + 1) : q > Len(t) \/ ~IDCH(t[q])}) - 1

\* \b between t[i-1] and t[i]
WordBoundary(t, i) ==
    LET before == i >= 2 /\ i - 1 <= Len(t) /\ IsWord(t[i - 1])
        after == i >= 1 /\ i <= Len(t) /\ IsWord(t[i])
    IN  before # after

\* HU(?=IDCH*\d)(?=IDCH*-)IDCH{6,40}[A-Z0-9]   (prefix <<"h","u">>, needHyphen)
\* 39(?=IDCH*\d)IDCH{6,40}[A-Z0-9]             (prefix <<"3","9">>)
\* matched at s; with bounded, \b is required before and after.  The greedy
\* IDCH{6,40} gives the longest admissible end; 0 when there is none.
IdEnd(t, s, prefix, needHyphen, bounded) ==
    Let(Lit(t, s, prefix), LAMBDA q :
        IF q = 0 THEN 0
        ELSE Let(IdRunEnd(t, q), LAMBDA r :
            LET ends == {e \in (q + MinInner)..Min(r, q + MaxInner) :
                            IsAlnum(t[e]) /\ (bounded => WordBoundary(t, e + 1))}
            IN  IF /\ \E i \in q..r : t[i] \in Digit
                   /\ needHyphen => \E i \in q..r : t[i] = "-"
                   /\ bounded => WordBoundary(t, q - Len(prefix))
                   /\ ends # {}
                THEN SetMax(ends)
                ELSE 0))

NoMatch == [b |-> 0, e |-> 0]

\* PATTERNS[k] matched at position p: [b, e] delimit what findall reports
\* (group 1 of the label patterns, the whole match of the others)
PATTERNS(k, t, p) ==
    Let(IF k \in {1, 2} THEN LABEL(t, p) ELSE p, LAMBDA s :
        Let(IF k \in {1, 3}
            THEN IdEnd(t, s, <<"h", "u">>, TRUE, k = 3)
            ELSE IdEnd(t, s, <<"3", "9">>, FALSE, k = 4),
            LAMBDA e : IF e = 0 THEN NoMatch ELSE [b |-> s, e |-> e]))

NumPatterns == 4

\* the first position from p on where PATTERNS[k] matches (0: none)
NextMatch(k, t, p) ==
    Let({q \in p..Len(t) : PATTERNS(k, t, q).e # 0},
        LAMBDA S : IF S = {} THEN 0 ELSE SetMin(S))

RECURSIVE findall(_, _, _)
\* pat.findall(text): the non-overlapping matches from position p on, left
\* to right
findall(k, t, p) ==
    Let(NextMatch(k, t, p), LAMBDA q :
        IF q = 0 THEN <<>>
        ELSE Let(PATTERNS(k, t, q), LAMBDA m :
                <<SubSeq(t, m.b, m.e)>> \o findall(k, t, m.e + 1)))

---------------------------------------------------------------------------
(* step4_pdf_pod.py: _normalize_pod, _find_pod_in_text, extract_pod_from_pdf *)

\* re.sub(r"\s+", "", s)
RemoveSpace(s) == SelectSeq(s, LAMBDA c : ~IsSpace(c))

\* re.sub(r"-{2,}", "-", s): of a run of hyphens the first one stays
CollapseHyphens(str) ==
    Let(str, LAMBDA s :
        Let({i \in 1..Len(s) : ~(s[i] = "-" /\ i > 1 /\ s[i - 1] = "-")},
            LAMBDA keep :
                [j \in 1..Cardinality(keep) |->
                    s[CHOOSE i \in keep : Cardinality({h \in keep : h <= i}) = j]]))

\* s.strip("-")
StripHyphens(str) ==
    Let(str, LAMBDA s :
        Let({i \in 1..Len(s) : s[i] # "-"}, LAMBDA other :
            IF other = {} THEN <<>> ELSE SubSeq(s, SetMin(other), SetMax(other))))

\* normalize_pod that leaves runs of hyphens as they are
normalize_pod_keeps_runs(s) ==
    LET s0 == IF s = NoneVal THEN <<>> ELSE s
    IN  StripHyphens(RemoveSpace(upper(s0)))

\* normalize_pod that trims the hyphens before it removes the whitespace
normalize_pod_strip_first(s) ==
    LET s0 == IF s = NoneVal THEN <<>> ELSE s
    IN  CollapseHyphens(RemoveSpace(StripHyphens(upper(s0))))

normalize_pod(s) ==
    LET s0 == IF s = NoneVal THEN <<>> ELSE s
    IN  StripHyphens(CollapseHyphens(RemoveSpace(upper(s0))))

RECURSIVE find_from_last(_, _)
\* find_from that takes a pattern's last match on the page
find_from_last(t, k) ==
    IF k > NumPatterns THEN NoneVal
    ELSE Let(findall(k, t, 1), LAMBDA matches :
            IF matches = <<>> THEN find_from_last(t, k + 1)
            ELSE Let(normalize_pod(matches[Len(matches)]), LAMBDA pod :
                    IF startswith(pod, <<"H", "U">>) \/ startswith(pod, <<"3", "9">>)
                    THEN pod
                    ELSE find_from_last(t, k + 1)))

RECURSIVE find_from(_, _)
\* the loop "for pat in PATTERNS" of _find_pod_in_text, from pattern k on
find_from(t, k) ==
    IF k > NumPatterns THEN NoneVal
    ELSE Let(findall(k, t, 1), LAMBDA matches :
            IF matches = <<>> THEN find_from(t, k + 1)
            ELSE Let(normalize_pod(matches[1]), LAMBDA pod :
                    IF startswith(pod, <<"H", "U">>) \/ startswith(pod, <<"3", "9">>)
                    THEN pod
                    ELSE find_from(t, k + 1)))

find_pod_in_text(text) ==
    Let(text, LAMBDA t : IF t = <<>> THEN NoneVal ELSE find_from(t, 1))

RECURSIVE scan_pages(_, _)
\* the loop "for i in range(doc.page_count)" of extract_pod_from_pdf
scan_pages(doc, i) ==
    IF i > Len(doc) THEN NoneVal
    ELSE Let(find_pod_in_text(doc[i]), LAMBDA pod :
            IF Truthy(pod) THEN pod ELSE scan_pages(doc, i + 1))

\* the label-qualified patterns alone
find_label_only(t) ==
    Let(findall(1, t, 1), LAMBDA hu :
        IF hu # <<>> THEN normalize_pod(hu[1])
        ELSE Let(findall(2, t, 1), LAMBDA gas :
                IF gas # <<>> THEN normalize_pod(gas[1]) ELSE NoneVal))

\* extract_pod_from_pdf whose first look at page 2 uses the label patterns alone
extract_pod_label_first(document) ==
    Let(document, LAMBDA doc :
        Let(IF Len(doc) >= 2 THEN find_label_only(doc[2]) ELSE NoneVal,
            LAMBDA pod : IF Truthy(pod) THEN pod ELSE scan_pages(doc, 1)))

\* extract_pod_from_pdf without the first look at page 2
extract_pod_in_page_order(document) == scan_pages(document, 1)

extract_pod_from_pdf(document) ==
    Let(document, LAMBDA doc :
        Let(IF Len(doc) >= 2 THEN find_pod_in_text(doc[2]) ELSE NoneVal,
            LAMBDA pod : IF Truthy(pod) THEN pod ELSE scan_pages(doc, 1)))

---------------------------------------------------------------------------
(* step2_body_tools.py, step3_extract_company_invoice.py *)

\* a strip that takes one whitespace character from each end
strip_once(str) ==
    Let(str, LAMBDA s :
        Let(IF s # <<>> /\ IsSpace(s[1]) THEN Tail(s) ELSE s, LAMBDA t :
            IF t # <<>> /\ IsSpace(t[Len(t)]) THEN SubSeq(t, 1, Len(t) - 1) ELSE t))

\* str.strip()
strip(str) ==
    Let(str, LAMBDA s :
        Let({i \in 1..Len(s) : ~IsSpace(s[i])}, LAMBDA other :
            IF other = {} THEN <<>> ELSE SubSeq(s, SetMin(other), SetMax(other))))

\* body.replace("\r\n", "\n") alone: a "\r" before a "\n" goes, every other
\* "\r" stays
NormalizeNewlines_crlf_only(str) ==
    Let(str, LAMBDA s :
        Let(SelectSeq([i \in 1..Len(s) |-> i],
                      LAMBDA i : ~(s[i] = "\r" /\ i < Len(s) /\ s[i + 1] = "\n")),
            LAMBDA keep : [j \in 1..Len(keep) |-> s[keep[j]]]))

\* body.replace("\r\n", "\n").replace("\r", "\n"): a "\r" before a "\n"
\* goes, every other "\r" becomes "\n"
NormalizeNewlines(str) ==
    Let(str, LAMBDA s :
        Let(SelectSeq([i \in 1..Len(s) |-> i],
                      LAMBDA i : ~(s[i] = "\r" /\ i < Len(s) /\ s[i + 1] = "\n")),
            LAMBDA keep :
                [j \in 1..Len(keep) |->
                    IF s[keep[j]] = "\r" THEN "\n" ELSE s[keep[j]]]))

\* w at position p of t, as it is written: the position after it (0: none)
Exact(t, pos, w) ==
    Let(pos, LAMBDA p :
        IF p = 0 \/ p + Len(w) - 1 > Len(t) THEN 0
        ELSE IF SubSeq(t, p, p + Len(w) - 1) = w THEN p + Len(w)
        ELSE 0)

\* the first position from p on that holds character c (0: none)
FirstChar(t, pos, c) ==
    Let(pos, LAMBDA p :
        IF p = 0 THEN 0
        ELSE Let({q \in p..Len(t) : t[q] = c}, LAMBDA S :
                 IF S = {} THEN 0 ELSE SetMin(S)))

RECURSIVE Replace(_, _, _, _)
\* re.sub over t from position pos on: ends[p] is the position after the
\* match that starts at p (0: no match there), reps[p] what replaces it;
\* the matches are taken from left to right and do not overlap
Replace(t, ends, reps, pos) ==
    Let(pos, LAMBDA p :
        Let({q \in p..Len(t) : ends[q] # 0}, LAMBDA starts :
            IF starts = {} THEN SubSeq(t, p, Len(t))
            ELSE Let(SetMin(starts), LAMBDA q :
                     SubSeq(t, p, q - 1) \o reps[q]
                         \o Replace(t, ends, reps, ends[q]))))

\* re.sub(pattern, rep, t) for a pattern given by the ends of its matches
Sub(str, ends, rep) ==
    Let(str, LAMBDA t :
        Let(ends, LAMBDA e : Replace(t, e, [p \in 1..Len(t) |-> rep], 1)))

\* the entities of the bodies: &nbsp; &amp; &lt; &gt;
Entities ==
    <<[name |-> <<"&", "n", "b", "s", "p", ";">>, char |-> Nbsp],
      [name |-> <<"&", "a", "m", "p", ";">>, char |-> "&"],
      [name |-> <<"&", "l", "t", ";">>, char |-> "<"],
      [name |-> <<"&", "g", "t", ";">>, char |-> ">"]>>

\* the entity that starts at position p of t (0: none)
EntityAt(t, p) ==
    Let({k \in DOMAIN Entities : Exact(t, p, Entities[k].name) # 0}, LAMBDA S :
        IF S = {} THEN 0 ELSE SetMin(S))

\* html.unescape(html): every entity becomes its character, in one pass
unescape(html) ==
    Let(html, LAMBDA t :
        Let([p \in 1..Len(t) |-> EntityAt(t, p)], LAMBDA found :
            Replace(t,
                    [p \in 1..Len(t) |->
                        IF found[p] = 0 THEN 0
                        ELSE p + Len(Entities[found[p]].name)],
                    [p \in 1..Len(t) |->
                        IF found[p] = 0 THEN <<>>
                        ELSE <<Entities[found[p]].char>>],
                    1)))

\* <name.*?>.*?</name> at p, for name "script" or "style" (IGNORECASE,
\* DOTALL): the lazy .*? stop at the first ">" and at the first closing
\* tag after it
BlockEndFor(t, p, name) ==
    Let(Lit(t, p, <<"<">> \o name), LAMBDA a :
        Let(FirstChar(t, a, ">"), LAMBDA g :
            IF g = 0 THEN 0
            ELSE Let({Lit(t, q, <<"<", "/">> \o name \o <<">">>) : q \in (g + 1)..Len(t)}
                        \ {0},
                     LAMBDA E : IF E = {} THEN 0 ELSE SetMin(E))))

\* <(script|style).*?>.*?</\1> at p
BlockEnd(t, p) ==
    Let(BlockEndFor(t, p, <<"s", "c", "r", "i", "p", "t">>), LAMBDA e :
        IF e # 0 THEN e ELSE BlockEndFor(t, p, <<"s", "t", "y", "l", "e">>))

\* <br\s*/?> at p
BrEnd(t, p) ==
    Lit(t, OptLit(t, Spaces0(t, Lit(t, p, <<"<", "b", "r">>)), <<"/">>), <<">">>)

\* </p\s*> at p
PEnd(t, p) == Lit(t, Spaces0(t, Lit(t, p, <<"<", "/", "p">>)), <<">">>)

\* <[^>]+> at p
TagEnd(t, p) ==
    IF t[p] # "<" \/ p = Len(t) \/ t[p + 1] = ">" THEN 0
    ELSE Let(FirstChar(t, p + 1, ">"), LAMBDA g : IF g = 0 THEN 0 ELSE g + 1)

\* [ \t]+ at p
BlanksEnd(t, p) ==
    IF t[p] \notin {" ", "\t"} THEN 0
    ELSE SetMin({q \in (p + 1)..(Len(t) + 1) : q > Len(t) \/ t[q] \notin {" ", "\t"}})

\* \n\s*\n\s*\n+ at p: the whitespace that starts with the "\n" at p, when it
\* holds three "\n" or more, up to the last of them
BlankLinesEnd(t, p) ==
    IF t[p] # "\n" THEN 0
    ELSE Let({q \in p..(Spaces0(t, p) - 1) : t[q] = "\n"}, LAMBDA S :
             IF Cardinality(S) < 3 THEN 0 ELSE SetMax(S) + 1)

\* _strip_html(html)
strip_html(html) ==
    IF ~Truthy(html) THEN <<>>
    ELSE
    Let(unescape(html), LAMBDA t1 :
    Let(Sub(t1, [p \in 1..Len(t1) |-> BlockEnd(t1, p)], <<" ">>), LAMBDA t2 :
    Let(Sub(t2, [p \in 1..Len(t2) |-> BrEnd(t2, p)], <<"\n">>), LAMBDA t3 :
    Let(Sub(t3, [p \in 1..Len(t3) |-> PEnd(t3, p)], <<"\n">>), LAMBDA t4 :
    Let(Sub(t4, [p \in 1..Len(t4) |-> TagEnd(t4, p)], <<" ">>), LAMBDA t5 :
    Let([i \in 1..Len(t5) |-> IF t5[i] = Nbsp THEN " " ELSE t5[i]], LAMBDA t6 :
    Let(Sub(t6, [p \in 1..Len(t6) |-> BlanksEnd(t6, p)], <<" ">>), LAMBDA t7 :
    Let(Sub(t7, [p \in 1..Len(t7) |-> BlankLinesEnd(t7, p)], <<"\n", "\n">>), LAMBDA t8 :
        strip(t8)))))))))

\* normalize_body_from_mailitem(msg) for a message given by its Body and its
\* HTMLBody (None: the property is absent or empty)
normalize_body_from_mailitem(Body, HTMLBody) ==
    Let(strip(IF Truthy(Body) THEN Body ELSE <<>>), LAMBDA plain :
        Let(IF plain = <<>>
                THEN strip_html(IF Truthy(HTMLBody) THEN HTMLBody ELSE <<>>)
                ELSE plain,
            LAMBDA body : strip(NormalizeNewlines(body))))

\* after position q: \s*!
BangAfter(t, q) ==
    Let(Spaces0(t, q), LAMBDA r : r <= Len(t) /\ t[r] = "!")

\* RE_GREET = Tisztelt\s+(?P<company>.+?)\s*!  (IGNORECASE | DOTALL) matched
\* at p: [b, e] delimit the group "company".  \s+ takes the whole run of
\* whitespace and the lazy .+? stops at the first end that \s*! can follow;
\* when that fails, \s+ gives back its last character to the group.
RE_GREET(t, p) ==
    Let(Lit(t, p, <<"t", "i", "s", "z", "t", "e", "l", "t">>), LAMBDA w :
        Let(Spaces1(t, w), LAMBDA a :
            IF a = 0 THEN NoMatch
            ELSE Let({e \in a..Len(t) : BangAfter(t, e + 1)}, LAMBDA ends :
                    IF ends # {} THEN [b |-> a, e |-> SetMin(ends)]
                    ELSE IF a <= Len(t) /\ t[a] = "!" /\ a - 1 > w
                    THEN [b |-> a - 1, e |-> a - 1]
                    ELSE NoMatch)))

\* {9,30}: the length range of an invoice number
MinInvoiceDigits == 9

MaxInvoiceDigits == 30

\* the last index of the maximal run of digits starting at p
DigitRunEnd(t, p) ==
    SetMin({q \in p..(Len(t) + 1) : q > Len(t) \/ t[q] \notin Digit}) - 1

\* RE_INVOICE = ku.ldju.k\s+a\s+(\d{9,30})\s+sza'mu'\s+elektronikus\s+sza'mla'ja't
\* (IGNORECASE) matched at p: [b, e] delimit group 1.  \s+ must follow the
\* digits, so the group is a whole run of 9 to 30 digits.
RE_INVOICE(t, p) ==
    LET p1 == Lit(t, p, <<"k", "u.", "l", "d", "j", "u.", "k">>)
        p2 == Spaces1(t, p1)
        p3 == Lit(t, p2, <<"a">>)
    IN  Let(Spaces1(t, p3), LAMBDA b :
            IF b = 0 THEN NoMatch
            ELSE Let(DigitRunEnd(t, b), LAMBDA e :
                    LET q1 == IF e - b + 1 >= MinInvoiceDigits /\ e - b + 1 <= MaxInvoiceDigits
                              THEN Spaces1(t, e + 1) ELSE 0
                        q2 == Lit(t, q1, <<"s", "z", "a'", "m", "u'">>)
                        q3 == Spaces1(t, q2)
                        q4 == Lit(t, q3, <<"e", "l", "e", "k", "t", "r", "o", "n", "i", "k", "u", "s">>)
                        q5 == Spaces1(t, q4)
                        q6 == Lit(t, q5, <<"s", "z", "a'", "m", "l", "a'", "j", "a'", "t">>)
                    IN  IF q6 = 0 THEN NoMatch ELSE [b |-> b, e |-> e]))

\* pattern.search(body): the leftmost match
extract_company(body) ==
    Let(body, LAMBDA t :
        IF t = <<>> THEN NoneVal
        ELSE Let({p \in 1..Len(t) : RE_GREET(t, p).e # 0}, LAMBDA starts :
                IF starts = {} THEN NoneVal
                ELSE Let(RE_GREET(t, SetMin(starts)), LAMBDA m :
                        strip(SubSeq(t, m.b, m.e)))))

extract_invoice(body) ==
    Let(body, LAMBDA t :
        IF t = <<>> THEN NoneVal
        ELSE Let({p \in 1..Len(t) : RE_INVOICE(t, p).e # 0}, LAMBDA starts :
                IF starts = {} THEN NoneVal
                ELSE Let(RE_INVOICE(t, SetMin(starts)), LAMBDA m :
                        strip(SubSeq(t, m.b, m.e)))))

---------------------------------------------------------------------------
(* main.py: is_exception_company, safe_filename *)

\* "[Company_A]" ... "[Company_E]"
Keyword(letter) ==
    <<"[", "C", "o", "m", "p", "a", "n", "y", "_", letter, "]">>

EXCEPT_KEYWORDS == <<Keyword("A"), Keyword("B"), Keyword("C"), Keyword("D"), Keyword("E")>>

\* w in s
contains(s, w) ==
    \E i \in 0..(Len(s) - Len(w)) : SubSeq(s, i + 1, i + Len(w)) = w

\* is_exception_company that compares the name as it is written
is_exception_company_case_sensitive(name) ==
    IF ~Truthy(name) THEN FALSE
    ELSE \E i \in DOMAIN EXCEPT_KEYWORDS : contains(name, EXCEPT_KEYWORDS[i])

is_exception_company(name) ==
    IF ~Truthy(name) THEN FALSE
    ELSE Let(lower(name), LAMBDA name_lower :
            \E i \in DOMAIN EXCEPT_KEYWORDS :
                contains(name_lower, lower(EXCEPT_KEYWORDS[i])))

\* the characters \ / : * ? " < > |
IllegalChars == {"\\", "/", ":", "*", "?", "\"", "<", ">", "|"}

\* re.sub(pattern + "+", " ", s): every run of characters of class In
\* becomes one space
SubRuns(str, In(_)) ==
    Let(str, LAMBDA s :
        Let(SelectSeq([i \in 1..Len(s) |-> i],
                      LAMBDA i : ~(In(s[i]) /\ i > 1 /\ In(s[i - 1]))),
            LAMBDA keep :
                [j \in 1..Len(keep) |->
                    IF In(s[keep[j]]) THEN " " ELSE s[keep[j]]]))

\* safe_filename without the collapse of whitespace runs
safe_filename_no_collapse(filename) ==
    strip(SubRuns(filename, LAMBDA c : c \in IllegalChars))

safe_filename(filename) ==
    Let(SubRuns(filename, LAMBDA c : c \in IllegalChars), LAMBDA sanitized :
        strip(SubRuns(sanitized, IsSpace)))

---------------------------------------------------------------------------
(* main.py: route_folder *)

OUT_ELECTRICITY == <<"F:\\[Company_Path]\\Electricity\\Invoices\\Incoming">>

OUT_GAS == <<"F:\\[Company_Path]\\Gas\\Commercial_Invoices\\Incoming">>

\* route_folder that gives no folder for an unknown prefix
route_folder_strict(pod) ==
    IF ~Truthy(pod) THEN NoneVal
    ELSE Let(upper(pod), LAMBDA pod_upper :
            IF startswith(pod_upper, <<"H", "U">>) THEN OUT_ELECTRICITY
            ELSE IF startswith(pod_upper, <<"3", "9">>) THEN OUT_GAS
            ELSE NoneVal)

route_folder(pod) ==
    IF ~Truthy(pod) THEN NoneVal
    ELSE Let(upper(pod), LAMBDA pod_upper :
            IF startswith(pod_upper, <<"H", "U">>) THEN OUT_ELECTRICITY
            ELSE IF startswith(pod_upper, <<"3", "9">>) THEN OUT_GAS
            ELSE OUT_ELECTRICITY)

---------------------------------------------------------------------------
(* main.py: what a run works on *)

\* the label, as the invoices print it, after a space
LabelText == <<" ", "M", "e'", "r", "o:", "p", "o", "n", "t", " ",
               "a", "z", "o", "n", "o", "s", "i'", "t", "o'", ":">>

HuLower == <<"h", "u", "-", "1", "2", "-", "-", "3", "4", "5">>

HuUpper == <<"H", "U", "-", "9", "8", "7", "6", "5", "4", "3">>

GasPlain == <<"3", "9", "1", "2", "3", "4", "5", "6", "7">>

GasHyphen == <<"3", "9", "-", "a", "b", "-", "c", "d", "-", "7">>

endswith(str, w) ==
    Let(str, LAMBDA s : Len(s) >= Len(w) /\ SubSeq(s, Len(s) - Len(w) + 1, Len(s)) = w)

\* str(n) for n >= 0
DigitSeq == <<"0", "1", "2", "3", "4", "5", "6", "7", "8", "9">>

RECURSIVE DecStr(_)
DecStr(n) ==
    IF n < 10 THEN <<DigitSeq[n + 1]>> ELSE DecStr(n \div 10) \o <<DigitSeq[(n % 10) + 1]>>

\* the last index of s that holds a character of S (0: none)
rfind(s, S) == SetMax({0} \cup {i \in 1..Len(s) : s[i] \in S})

\* os.path.join(directory, name) for a name without drive or separator
join(directory, name) ==
    IF directory # <<>> /\ directory[Len(directory)] \in {"\\", "/"}
    THEN directory \o name
    ELSE directory \o <<"\\">> \o name

\* os.path.splitext(path): [root, ext]; the extension starts at the last dot
\* of the last component, unless only dots precede it there
splitext(path) ==
    Let(rfind(path, {"\\", "/"}), LAMBDA sepIndex :
        Let(rfind(path, {"."}), LAMBDA dotIndex :
            IF dotIndex > sepIndex
               /\ \E i \in (sepIndex + 1)..(dotIndex - 1) : path[i] # "."
            THEN [root |-> SubSeq(path, 1, dotIndex - 1),
                  ext |-> SubSeq(path, dotIndex, Len(path))]
            ELSE [root |-> path, ext |-> <<>>]))

\* f"{root} ({counter}){ext}"
Numbered(output_path, counter) ==
    Let(splitext(output_path), LAMBDA parts :
        parts.root \o <<" ", "(">> \o DecStr(counter) \o <<")">> \o parts.ext)

\* f"{safe_filename(company_name)}_{pod_identifier}_{invoice_number}.pdf"
base_filename(company_name, pod_identifier, invoice_number) ==
    safe_filename(company_name) \o <<"_">> \o pod_identifier \o <<"_">>
        \o invoice_number \o <<".", "p", "d", "f">>

\* "Tisztelt Valami/Zrt   !"
GreetPlain ==
    <<"T", "i", "s", "z", "t", "e", "l", "t", " ", "V", "a", "l", "a", "m",
      "i", "/", "Z", "r", "t", " ", " ", " ", "!", "\r", "\n">>

\* "Tisztelt [company_a] Kft!"
GreetException ==
    <<"T", "i", "s", "z", "t", "e", "l", "t", " ", "[", "c", "o", "m", "p",
      "a", "n", "y", "_", "a", "]", " ", "K", "f", "t", "!", "\r", "\n">>

\* "Tisztelt  !": a greeting whose company name is empty
GreetNoName ==
    <<"T", "i", "s", "z", "t", "e", "l", "t", " ", " ", "!", "\r", "\n">>

\* "Ezu'ton ku.ldju.k a 562003117 sza'mu' elektronikus sza'mla'ja't."
InvoiceSentence ==
    <<"E", "z", "u'", "t", "o", "n", " ", "k", "u.", "l", "d", "j", "u.",
      "k", " ", "a", " ", "5", "6", "2", "0", "0", "3", "1", "1", "7", " ",
      "s", "z", "a'", "m", "u'", " ", "e", "l", "e", "k", "t", "r", "o",
      "n", "i", "k", "u", "s", " ", "s", "z", "a'", "m", "l", "a'", "j",
      "a'", "t", ".">>

\* the Body of the messages of a run
Bodies ==
    {GreetPlain \o InvoiceSentence, GreetPlain, InvoiceSentence,
     GreetException \o InvoiceSentence, GreetException,
     GreetNoName \o InvoiceSentence, <<" ">>}

PdfName == <<"a", ".", "P", "D", "F">>

TxtName == <<"n", ".", "t", "x", "t">>

\* what fitz.open finds in a saved attachment: the page texts, or nothing
\* that opens
DocHu == [opens |-> TRUE, pages |-> <<GasPlain, LabelText \o HuUpper>>]

DocGas == [opens |-> TRUE, pages |-> <<GasHyphen>>]

DocNone == [opens |-> TRUE, pages |-> <<<<"x">>>>]

DocBroken == [opens |-> FALSE, pages |-> <<>>]

\* the attachments of the messages of a run
Attachments ==
    {[FileName |-> PdfName, content |-> c] : c \in {DocHu, DocGas, DocNone, DocBroken}}
    \cup {[FileName |-> TxtName, content |-> DocBroken]}

NoAttachment == [FileName |-> <<>>, content |-> DocBroken]

\* UnRead and FlagStatus of a message before the run
Marks == {[UnRead |-> TRUE, FlagStatus |-> 0], [UnRead |-> FALSE, FlagStatus |-> 1]}

NoMarks == [UnRead |-> FALSE, FlagStatus |-> 0]

NoMessage == [number |-> 0, Body |-> <<>>]

Workers == {1, 2}

\* mark_unread was not called
NotCalled == -1

\* the locals of a call of process_attachment; pc is the step to take next,
\* unread the number of statements of mark_unread that Outlook accepted
IdleProc ==
    [pc |-> "idle", message |-> NoMessage, item |-> 0,
     attachment |-> NoAttachment,
     company_name |-> NoneVal, invoice_number |-> NoneVal, temp_dir |-> 0,
     pod_identifier |-> NoneVal, output_directory |-> NoneVal,
     output_path |-> NoneVal, final_path |-> NoneVal, counter |-> 0,
     unread |-> NotCalled, result |-> FALSE]

\* a run of main holds at most MaxMsgs messages that pass its filters
MaxMsgs == 2

\* a message holds at most MaxAtts attachments
MaxAtts == 2

\* at most MaxPre files of the destination carry the name of a filing or
\* one of its numbered names before the run
MaxPre == 1

\* the path of the filings of DocHu under a message of GreetPlain and
\* InvoiceSentence
PlainPath ==
    join(OUT_ELECTRICITY,
         base_filename(extract_company(GreetPlain), normalize_pod(HuUpper),
                       extract_invoice(InvoiceSentence)))

\* PlainPath and its first n - 1 numbered names
TakenNames(n) ==
    {IF k = 0 THEN PlainPath ELSE Numbered(PlainPath, k) : k \in 0..(n - 1)}

InitMainIdle ==
    /\ message = NoMessage
    /\ todo = 0
    /\ had_successful_save = FALSE
    /\ mpc = "idle"

InitLockIdle ==
    /\ serialized = FALSE
    /\ lock = [d \in {OUT_ELECTRICITY, OUT_GAS} |-> 0]

InitPipeIdle ==
    /\ mailbox = NoMarks
    /\ proc = [w \in Workers |-> IdleProc]
    /\ fs = << >>
    /\ dirs = {}
    /\ temps = << >>
    /\ InitMainIdle
    /\ InitLockIdle

---------------------------------------------------------------------------
(* main.py: mark_processed, mark_unread, ensure_dir, process_attachment *)

\* the three statements of mark_unread, of which Outlook accepted the first
\* `accepted` before one raised (3: none raised); the exception is dropped
mark_unread(item, accepted) ==
    [UnRead |-> IF accepted >= 1 THEN TRUE ELSE item.UnRead,
     FlagStatus |-> IF accepted >= 2 THEN 0 ELSE item.FlagStatus]

\* the three statements of mark_processed, likewise
mark_processed(item, accepted) ==
    [UnRead |-> IF accepted >= 1 THEN FALSE ELSE item.UnRead,
     FlagStatus |-> IF accepted >= 2 THEN 2 ELSE item.FlagStatus]

\* the statements of mark_unread and of mark_processed
MarkStatements == 3

\* os.makedirs(directory_path, exist_ok=True) unless the directory is there
ensure_dir(directories, directory_path) == directories \cup {directory_path}

\* a test that finds no file
exists_nothing(files, path) == FALSE

\* os.path.exists(path)
exists(files, path) == path \in DOMAIN files

\* the files after a file is written to path: a new file is version 1, a
\* file written over another the next version of it
Written(files, path) ==
    [q \in DOMAIN files \cup {path} |->
        IF q # path THEN files[q]
        ELSE IF path \in DOMAIN files THEN files[path] + 1 ELSE 1]

\* tempfile.mkdtemp: a directory that was not there
mkdtemp(tmp) == SetMin({n \in 1..(Cardinality(DOMAIN tmp) + 1) : n \notin DOMAIN tmp})

\* the temporary directories with directory n holding `names`
WithTemp(tmp, n, names) ==
    [k \in DOMAIN tmp \cup {n} |-> IF k = n THEN names ELSE tmp[k]]

\* shutil.rmtree(temp_dir, ignore_errors=True)
rmtree(tmp, n) == [k \in DOMAIN tmp \ {n} |-> tmp[k]]

\* "return value" of process_attachment
Returning(p, value) == [p EXCEPT !.pc = "return", !.result = value]

\* Step 1 (validate file type) and Step 2 (extract metadata from the body)
ValidateAndExtract(w) ==
    /\ proc[w].pc = "step1"
    /\ proc' = [proc EXCEPT ![w] =
            IF ~endswith(lower(@.attachment.FileName), <<".", "p", "d", "f">>)
            THEN Returning(@, FALSE)
            ELSE Let(normalize_body_from_mailitem(@.message.Body, <<>>),
                     LAMBDA email_body :
                        [@ EXCEPT !.pc = "step3",
                                  !.company_name = extract_company(email_body),
                                  !.invoice_number = extract_invoice(email_body)])]
    /\ UNCHANGED <<mailbox, fs, dirs, temps, restVars>>

\* Step 3 after the validation of the metadata: a call without company name
\* or invoice number returns before the exception list is looked at
CheckException_after_metadata(w) ==
    /\ proc[w].pc = "step3"
    /\ IF ~Truthy(proc[w].company_name) \/ ~Truthy(proc[w].invoice_number)
       THEN /\ proc' = [proc EXCEPT ![w] = Returning(@, FALSE)]
            /\ UNCHANGED mailbox
       ELSE IF is_exception_company(proc[w].company_name)
       THEN \E accepted \in 0..MarkStatements :
                /\ mailbox' = mark_unread(mailbox, accepted)
                /\ proc' = [proc EXCEPT ![w] =
                        Returning([@ EXCEPT !.unread = accepted], FALSE)]
       ELSE /\ proc' = [proc EXCEPT ![w].pc = "required"]
            /\ UNCHANGED mailbox
    /\ UNCHANGED <<fs, dirs, temps, restVars>>

\* Step 3: check the exception list
CheckException(w) ==
    /\ proc[w].pc = "step3"
    /\ IF is_exception_company(proc[w].company_name)
       THEN \E accepted \in 0..MarkStatements :
                /\ mailbox' = mark_unread(mailbox, accepted)
                /\ proc' = [proc EXCEPT ![w] =
                        Returning([@ EXCEPT !.unread = accepted], FALSE)]
       ELSE /\ proc' = [proc EXCEPT ![w].pc = "required"]
            /\ UNCHANGED mailbox
    /\ UNCHANGED <<fs, dirs, temps, restVars>>

\* the validation that lets a call pass with one of the two missing
ValidateMetadata_both_missing(w) ==
    /\ proc[w].pc = "required"
    /\ proc' = [proc EXCEPT ![w] =
            IF ~Truthy(@.company_name) /\ ~Truthy(@.invoice_number)
            THEN Returning(@, FALSE)
            ELSE [@ EXCEPT !.pc = "step4"]]
    /\ UNCHANGED <<mailbox, fs, dirs, temps, restVars>>

\* "Validate required metadata"
ValidateMetadata(w) ==
    /\ proc[w].pc = "required"
    /\ proc' = [proc EXCEPT ![w] =
            IF ~Truthy(@.company_name) \/ ~Truthy(@.invoice_number)
            THEN Returning(@, FALSE)
            ELSE [@ EXCEPT !.pc = "step4"]]
    /\ UNCHANGED <<mailbox, fs, dirs, temps, restVars>>

\* Step 4: save the attachment to a new temporary directory; SaveAsFile
\* writes the file or raises, and then the directory is removed
SaveAttachment(w) ==
    /\ proc[w].pc = "step4"
    /\ \E saved \in BOOLEAN, temp_dir \in {mkdtemp(temps)} :
            IF saved
            THEN /\ temps' = WithTemp(temps, temp_dir, {proc[w].attachment.FileName})
                 /\ proc' = [proc EXCEPT ![w].pc = "step5", ![w].temp_dir = temp_dir]
            ELSE /\ temps' = temps
                 /\ proc' = [proc EXCEPT ![w] =
                        Returning([@ EXCEPT !.temp_dir = temp_dir], FALSE)]
    /\ UNCHANGED <<mailbox, fs, dirs, restVars>>

\* what extract_pod_from_pdf gives for a saved file; fitz.open raises on a
\* file that does not open, and the caller then keeps None
PodOfFile(content) ==
    IF content.opens THEN extract_pod_from_pdf(content.pages) ELSE NoneVal

\* Step 5: extract the POD from the saved file
ExtractPod(w) ==
    /\ proc[w].pc = "step5"
    /\ \E pod_identifier \in {PodOfFile(proc[w].attachment.content)} :
            IF ~Truthy(pod_identifier)
            THEN /\ temps' = rmtree(temps, proc[w].temp_dir)
                 /\ proc' = [proc EXCEPT ![w] = Returning(@, FALSE)]
            ELSE /\ temps' = temps
                 /\ proc' = [proc EXCEPT ![w].pc = "step6",
                                         ![w].pod_identifier = pod_identifier]
    /\ UNCHANGED <<mailbox, fs, dirs, restVars>>

\* os.path.join(output_directory, base_filename) of the call p
OutputPath(p, output_directory) ==
    IF ~Truthy(output_directory) THEN NoneVal
    ELSE join(output_directory,
              base_filename(p.company_name, p.pod_identifier, p.invoice_number))

\* Step 6 (target directory), Step 7 (file name) and the two assignments
\* before the loop of Step 8
RouteAndName(w) ==
    /\ proc[w].pc = "step6"
    /\ \E output_directory \in {route_folder(proc[w].pod_identifier)} :
        \E output_path \in {OutputPath(proc[w], output_directory)} :
            IF ~Truthy(output_directory)
            THEN /\ temps' = rmtree(temps, proc[w].temp_dir)
                 /\ proc' = [proc EXCEPT ![w] = Returning(@, FALSE)]
                 /\ dirs' = dirs
            ELSE /\ temps' = temps
                 /\ dirs' = ensure_dir(dirs, output_directory)
                 /\ proc' = [proc EXCEPT ![w].pc = "step8",
                                ![w].output_directory = output_directory,
                                ![w].output_path = output_path,
                                ![w].final_path = output_path,
                                ![w].counter = 1]
    /\ UNCHANGED <<mailbox, fs, restVars>>

\* Step 8 with "if" in place of "while": the numbered name is not tested
CheckExists_once(w) ==
    /\ proc[w].pc = "step8"
    /\ proc' = [proc EXCEPT ![w] =
            IF exists(fs, proc[w].final_path)
            THEN [@ EXCEPT !.final_path = Numbered(proc[w].output_path, proc[w].counter),
                           !.counter = @ + 1, !.pc = "move"]
            ELSE [@ EXCEPT !.pc = "move"]]
    /\ UNCHANGED <<mailbox, fs, dirs, temps, restVars>>

\* Step 8: one test of "while os.path.exists(final_path)", and the body of
\* the loop when the path exists
CheckExists(w) ==
    /\ proc[w].pc = "step8"
    /\ proc' = [proc EXCEPT ![w] =
            IF exists(fs, proc[w].final_path)
            THEN [@ EXCEPT !.final_path = Numbered(proc[w].output_path, proc[w].counter),
                           !.counter = @ + 1]
            ELSE [@ EXCEPT !.pc = "move"]]
    /\ UNCHANGED <<mailbox, fs, dirs, temps, restVars>>

\* shutil.move(temp_pdf_path, final_path): the file arrives at final_path,
\* in place of a file that is there, or the move raises and the exception
\* leaves process_attachment
Move(w) ==
    /\ proc[w].pc = "move"
    /\ \E moved \in BOOLEAN :
            IF moved
            THEN /\ fs' = Written(fs, proc[w].final_path)
                 /\ temps' = WithTemp(temps, proc[w].temp_dir, {})
                 /\ proc' = [proc EXCEPT ![w].pc = "rmtree"]
            ELSE /\ proc' = [proc EXCEPT ![w].pc = "raised"]
                 /\ UNCHANGED <<fs, temps>>
    /\ UNCHANGED <<mailbox, dirs, restVars>>

\* shutil.rmtree(temp_dir, ignore_errors=True); return True
Cleanup(w) ==
    /\ proc[w].pc = "rmtree"
    /\ temps' = rmtree(temps, proc[w].temp_dir)
    /\ proc' = [proc EXCEPT ![w] = Returning(@, TRUE)]
    /\ UNCHANGED <<mailbox, fs, dirs, restVars>>

---------------------------------------------------------------------------
(* Specification SpecPod: extract_pod_from_pdf on a document *)

\* the pieces a page text is put together from
Fragments == {LabelText, HuLower, HuUpper, GasPlain, GasHyphen,
              <<" ">>, <<"x">>, <<"-">>}

\* a page text holds at most MaxFrags pieces
MaxFrags == 3

\* a document holds at most MaxPages pages
MaxPages == 3

RECURSIVE Texts(_)
Texts(n) ==
    IF n = 0 THEN {<<>>}
    ELSE Texts(n - 1) \cup {t \o f : t \in Texts(n - 1), f \in Fragments}

\* the page texts of the documents of several pages
PageChoices == {<<>>, HuLower, LabelText \o HuUpper, GasPlain,
                LabelText \o GasHyphen, <<"x">> \o GasHyphen}

RECURSIVE Docs(_)
Docs(n) ==
    IF n = 0 THEN {<<>>}
    ELSE Docs(n - 1) \cup {d \o <<t>> : d \in Docs(n - 1), t \in PageChoices}

InitFunIdle == arg = <<>> /\ res = NoneVal /\ res2 = NoneVal /\ fpc = "idle"

InitPodIdle == pages = <<>> /\ located = NoneVal /\ ppc = "idle"

InitPod ==
    /\ pages \in Docs(MaxPages) \cup {<<t>> : t \in Texts(MaxFrags)}
    /\ located = NoneVal
    /\ ppc = "open"
    /\ InitFunIdle
    /\ InitPipeIdle

\* pod = extract_pod_from_pdf(path)
Locate ==
    /\ ppc = "open"
    /\ located' = extract_pod_from_pdf(pages)
    /\ ppc' = "done"
    /\ UNCHANGED <<pages, funVars, pipeVars>>

NextPod == Locate

SpecPod == InitPod /\ [][NextPod]_vars

---------------------------------------------------------------------------
(* Specification SpecFun: the string functions, each on every input *)

FunChars == {"h", "U", "3", "9", "-", " ", "x"}

\* an input string holds at most MaxStr characters
MaxStr == 4

RECURSIVE Strings(_)
Strings(n) ==
    IF n = 0 THEN {<<>>}
    ELSE Strings(n - 1) \cup {s \o <<c>> : s \in Strings(n - 1), c \in FunChars}

\* "hu-12-34", "HU--12", " HU 12 "
Example1 == <<"h", "u", "-", "1", "2", "-", "3", "4">>

Example2 == <<"H", "U", "-", "-", "1", "2">>

Example3 == <<" ", "H", "U", " ", "1", "2", " ">>

\* "HU001234567890", "39001234567890", "XX00000000"
ExampleHu == <<"H", "U", "0", "0", "1", "2", "3", "4", "5", "6", "7", "8", "9", "0">>

ExampleGas == <<"3", "9", "0", "0", "1", "2", "3", "4", "5", "6", "7", "8", "9", "0">>

ExampleXx == <<"X", "X", "0", "0", "0", "0", "0", "0", "0", "0">>

Examples == {Example1, Example2, Example3, ExampleHu, ExampleGas, ExampleXx}

InitFun ==
    /\ arg \in Strings(MaxStr) \cup Examples \cup {NoneVal}
    /\ res = NoneVal
    /\ res2 = NoneVal
    /\ fpc = "input"
    /\ InitPodIdle
    /\ InitPipeIdle

\* r = _normalize_pod(s)
CallNormalize ==
    /\ fpc = "input"
    /\ res' = normalize_pod(arg)
    /\ fpc' = "normalize_pod"
    /\ UNCHANGED <<arg, res2, podVars, pipeVars>>

\* _normalize_pod(r)
CallNormalizeAgain ==
    /\ fpc = "normalize_pod"
    /\ res2' = normalize_pod(res)
    /\ fpc' = "normalize_pod twice"
    /\ UNCHANGED <<arg, res, podVars, pipeVars>>

\* route_folder(pod)
CallRoute ==
    /\ fpc = "input"
    /\ res' = route_folder(arg)
    /\ fpc' = "route_folder"
    /\ UNCHANGED <<arg, res2, podVars, pipeVars>>

NextFun == CallNormalize \/ CallNormalizeAgain \/ CallRoute

SpecFun == InitFun /\ [][NextFun]_vars

---------------------------------------------------------------------------
(* Specification SpecName: is_exception_company and safe_filename, each on *)
(* every company name                                                      *)

KeywordLower ==
    <<"[", "c", "o", "m", "p", "a", "n", "y", "_", "a", "]">>

KeywordMixed ==
    <<"[", "C", "O", "M", "P", "A", "N", "Y", "_", "e", "]">>

\* a name of the same shape that is no keyword
KeywordOther ==
    <<"[", "C", "o", "m", "p", "a", "n", "y", "_", "F", "]">>

\* the two halves of "[Company_B]"
KeywordHead ==
    <<"[", "C", "o", "m", "p", "a", "n", "y", "_">>

KeywordTail ==
    <<"B", "]">>

TheWord ==
    <<"T", "h", "e", " ">>

KftWord ==
    <<" ", "K", "f", "t">>

\* the pieces a company name is put together from
NameFragments ==
    {KeywordLower, KeywordMixed, KeywordOther, KeywordHead, KeywordTail,
     TheWord, KftWord, <<"/">>, <<":">>, <<"\"">>, <<" ">>, <<"\t">>, <<"\n">>,
     <<"\\", "*", "?", "<", ">", "|">>}

\* a company name holds at most MaxNameFrags pieces
MaxNameFrags == 3

RECURSIVE Names(_)
Names(n) ==
    IF n = 0 THEN {<<>>}
    ELSE Names(n - 1) \cup {s \o f : s \in Names(n - 1), f \in NameFragments}

\* "The [COMPANY_A] Corporation"
ExampleCorporation ==
    <<"T", "h", "e", " ", "[", "C", "O", "M", "P", "A", "N", "Y", "_", "A",
      "]", " ", "C", "o", "r", "p", "o", "r", "a", "t", "i", "o", "n">>

\* 'Company/Name: "Invoice"'
ExampleInvoice ==
    <<"C", "o", "m", "p", "a", "n", "y", "/", "N", "a", "m", "e", ":", " ",
      "\"", "I", "n", "v", "o", "i", "c", "e", "\"">>

InitName ==
    /\ arg \in Names(MaxNameFrags) \cup {ExampleCorporation, ExampleInvoice, NoneVal}
    /\ res = NoneVal
    /\ res2 = NoneVal
    /\ fpc = "input"
    /\ InitPodIdle
    /\ InitPipeIdle

\* is_exception_company(name)
CallIsException ==
    /\ fpc = "input"
    /\ res' = is_exception_company(arg)
    /\ fpc' = "is_exception_company"
    /\ UNCHANGED <<arg, res2, podVars, pipeVars>>

\* r = safe_filename(name), for a name that is a string
CallSafeFilename ==
    /\ fpc = "input"
    /\ arg # NoneVal
    /\ res' = safe_filename(arg)
    /\ fpc' = "safe_filename"
    /\ UNCHANGED <<arg, res2, podVars, pipeVars>>

\* safe_filename(r)
CallSafeFilenameAgain ==
    /\ fpc = "safe_filename"
    /\ res2' = safe_filename(res)
    /\ fpc' = "safe_filename twice"
    /\ UNCHANGED <<arg, res, podVars, pipeVars>>

NextName ==
    \/ CallIsException
    \/ CallSafeFilename
    \/ CallSafeFilenameAgain

SpecName == InitName /\ [][NextName]_vars

---------------------------------------------------------------------------
(* Specification SpecBody: normalize_body_from_mailitem on a message, and  *)
(* again on a message whose plain body is the result                       *)

\* the pieces plain bodies are written from
BodyFragments == {<<"a">>, <<" ">>, <<"\t">>, <<"\n">>, <<"\r">>}

\* the pieces markup bodies are written from
MarkupFragments ==
    {<<"<", "p", ">">>, <<"<", "/", "p", " ", ">">>, <<"<", "b", "r", "/", ">">>,
     <<"<", "s", "c", "r", "i", "p", "t", ">">>,
     <<"<", "/", "S", "C", "R", "I", "P", "T", ">">>,
     <<"&", "n", "b", "s", "p", ";">>, <<"&", "l", "t", ";">>,
     <<"a">>, <<" ">>, <<"\n">>, <<"\r">>}

MaxBodyFrags == 4

MaxMarkupFrags == 3

RECURSIVE Concats(_, _)
\* the texts written from at most n pieces of F
Concats(F, n) ==
    IF n = 0 THEN {<<>>}
    ELSE Concats(F, n - 1) \cup {s \o f : s \in Concats(F, n - 1), f \in F}

\* "<p>a  b</p>\n \n\n<style>x</style><br />c&nbsp; d"
ExampleMarkup ==
    <<"<", "p", ">", "a", " ", " ", "b", "<", "/", "p", ">", "\n", " ", "\n",
      "\n", "<", "s", "t", "y", "l", "e", ">", "x", "<", "/", "s", "t", "y",
      "l", "e", ">", "<", "b", "r", " ", "/", ">", "c", "&", "n", "b", "s",
      "p", ";", " ", "d">>

\* markup whose lines end with a bare carriage return: "a\r\r\rb"
ExampleMarkupCR == <<"a", "\r", "\r", "\r", "b">>

\* the messages: a plain body with no markup beside it, or markup under a
\* plain body that is absent, empty or blank
Messages ==
    {[Body |-> b, HTMLBody |-> h] :
        b \in Concats(BodyFragments, MaxBodyFrags) \cup {NoneVal},
        h \in {<<>>, NoneVal}}
    \cup {[Body |-> <<>>, HTMLBody |-> h] :
            h \in Concats(MarkupFragments, MaxMarkupFrags)}
    \cup {[Body |-> b, HTMLBody |-> h] :
            b \in {<<>>, NoneVal, <<" ", "\r", "\n">>},
            h \in {ExampleMarkup, ExampleMarkupCR}}

InitBody ==
    /\ arg \in Messages
    /\ res = NoneVal
    /\ res2 = NoneVal
    /\ fpc = "input"
    /\ InitPodIdle
    /\ InitPipeIdle

\* r = normalize_body_from_mailitem(msg)
CallNormalizeBody ==
    /\ fpc = "input"
    /\ res' = normalize_body_from_mailitem(arg.Body, arg.HTMLBody)
    /\ fpc' = "normalize_body"
    /\ UNCHANGED <<arg, res2, podVars, pipeVars>>

\* normalize_body_from_mailitem of a message whose Body is r
CallNormalizeBodyAgain ==
    /\ fpc = "normalize_body"
    /\ res2' = normalize_body_from_mailitem(res, <<>>)
    /\ fpc' = "normalize_body twice"
    /\ UNCHANGED <<arg, res, podVars, pipeVars>>

NextBody ==
    \/ CallNormalizeBody
    \/ CallNormalizeBodyAgain

SpecBody == InitBody /\ [][NextBody]_vars

---------------------------------------------------------------------------
(* Specification Spec: main, one message and one attachment after another *)

\* the files of the destination before the run
InitFiles ==
    /\ \E taken \in SUBSET TakenNames(MaxPre) : fs = [q \in taken |-> 1]
    /\ dirs = IF fs = << >> THEN {} ELSE {OUT_ELECTRICITY}
    /\ temps = << >>

Init ==
    /\ mailbox = NoMarks
    /\ message = NoMessage
    /\ todo = 0
    /\ had_successful_save = FALSE
    /\ mpc = "messages"
    /\ proc = [w \in Workers |-> IdleProc]
    /\ InitFiles
    /\ InitLockIdle
    /\ InitPodIdle
    /\ InitFunIdle

\* "for message in messages": a message that one of the filters rejects
\* (continue)
SkipMessage ==
    /\ mpc = "messages"
    /\ message.number < MaxMsgs
    /\ \E marks \in Marks : mailbox' = marks
    /\ message' = [number |-> message.number + 1, Body |-> <<>>]
    /\ UNCHANGED <<todo, had_successful_save, mpc, proc, fs, dirs, temps, otherVars>>

\* "for message in messages": a message that passes the filters, up to the
\* snapshot of its attachments
BeginMessage ==
    /\ mpc = "messages"
    /\ message.number < MaxMsgs
    /\ \E marks \in Marks, body \in Bodies, count \in 0..MaxAtts :
        /\ mailbox' = marks
        /\ message' = [number |-> message.number + 1, Body |-> body]
        /\ todo' = count
    /\ had_successful_save' = FALSE
    /\ mpc' = "attachments"
    /\ UNCHANGED <<proc, fs, dirs, temps, otherVars>>

\* "for attachment in attachment_list": process_attachment is called
CallProcess ==
    /\ mpc = "attachments"
    /\ todo > 0
    /\ \E attachment \in Attachments :
        proc' = [proc EXCEPT ![1] =
                    [IdleProc EXCEPT !.pc = "step1", !.message = message,
                                     !.item = todo, !.attachment = attachment]]
    /\ todo' = todo - 1
    /\ mpc' = "call"
    /\ UNCHANGED <<message, had_successful_save, mailbox, fs, dirs, temps, otherVars>>

\* processing_success = process_attachment(...) and the "if" after it
ReturnToMain ==
    /\ mpc = "call"
    /\ proc[1].pc = "return"
    /\ had_successful_save' = (had_successful_save \/ proc[1].result)
    /\ proc' = [proc EXCEPT ![1] = IdleProc]
    /\ mpc' = "attachments"
    /\ UNCHANGED <<message, todo, mailbox, fs, dirs, temps, otherVars>>

\* the exception of shutil.move leaves process_attachment and main
Crash ==
    /\ mpc = "call"
    /\ proc[1].pc = "raised"
    /\ proc' = [proc EXCEPT ![1] = IdleProc]
    /\ mpc' = "crashed"
    /\ UNCHANGED <<message, todo, had_successful_save, mailbox, fs, dirs, temps, otherVars>>

\* after the attachments: mark_processed(message), whatever was saved
EndMessage_unconditional ==
    /\ mpc = "attachments"
    /\ todo = 0
    /\ \E accepted \in 0..MarkStatements :
            mailbox' = mark_processed(mailbox, accepted)
    /\ mpc' = "messages"
    /\ UNCHANGED <<message, todo, had_successful_save, proc, fs, dirs, temps, otherVars>>

\* after the attachments: "if had_successful_save: mark_processed(message)"
EndMessage ==
    /\ mpc = "attachments"
    /\ todo = 0
    /\ IF had_successful_save
       THEN \E accepted \in 0..MarkStatements :
                mailbox' = mark_processed(mailbox, accepted)
       ELSE UNCHANGED mailbox
    /\ mpc' = "messages"
    /\ UNCHANGED <<message, todo, had_successful_save, proc, fs, dirs, temps, otherVars>>

\* the list of messages is exhausted: the summary is printed
Finish ==
    /\ mpc = "messages"
    /\ mpc' = "done"
    /\ UNCHANGED <<message, todo, had_successful_save, callVars, otherVars>>

Next ==
    \/ SkipMessage
    \/ BeginMessage
    \/ CallProcess
    \/ ValidateAndExtract(1)
    \/ CheckException(1)
    \/ ValidateMetadata(1)
    \/ SaveAttachment(1)
    \/ ExtractPod(1)
    \/ RouteAndName(1)
    \/ CheckExists(1)
    \/ Move(1)
    \/ Cleanup(1)
    \/ ReturnToMain
    \/ Crash
    \/ EndMessage
    \/ Finish

Spec == Init /\ [][Next]_vars

---------------------------------------------------------------------------
(* Specification SpecRace: two workers, each running process_attachment    *)
(* for an attachment of one message, their steps interleaved.  When        *)
(* serialized, a worker takes the lock of its destination before the first *)
(* test of Step 8 and gives it back after the move.                        *)

\* the attachments of the parallel callers
RaceAttachments == {[FileName |-> PdfName, content |-> c] : c \in {DocHu, DocGas}}

InitRace ==
    /\ serialized \in BOOLEAN
    /\ lock = [d \in {OUT_ELECTRICITY, OUT_GAS} |-> 0]
    /\ message = [number |-> 1, Body |-> GreetPlain \o InvoiceSentence]
    /\ mailbox \in Marks
    /\ \E attachments \in [Workers -> RaceAttachments] :
        proc = [w \in Workers |->
                    [IdleProc EXCEPT !.pc = "step1", !.message = message,
                                     !.item = w, !.attachment = attachments[w]]]
    /\ todo = 0
    /\ had_successful_save = FALSE
    /\ mpc = "parallel"
    /\ InitFiles
    /\ InitPodIdle
    /\ InitFunIdle

\* worker w has the lock of its destination, or no lock is asked for
HoldsLock(w) == serialized => lock[proc[w].output_directory] = w

\* worker w takes the lock of its destination
Acquire(w) ==
    /\ serialized
    /\ proc[w].pc = "step8"
    /\ lock[proc[w].output_directory] = 0
    /\ lock' = [lock EXCEPT ![proc[w].output_directory] = w]
    /\ UNCHANGED <<serialized, mainVars, callVars, podVars, funVars>>

\* worker w, past the move (done or raised), gives the lock back
Release(w) ==
    /\ serialized
    /\ proc[w].pc \in {"rmtree", "return", "raised"}
    /\ Truthy(proc[w].output_directory)
    /\ lock[proc[w].output_directory] = w
    /\ lock' = [lock EXCEPT ![proc[w].output_directory] = 0]
    /\ UNCHANGED <<serialized, mainVars, callVars, podVars, funVars>>

\* Step 8 under the lock
LockedCheckExists(w) ==
    /\ proc[w].pc = "step8"
    /\ HoldsLock(w)
    /\ CheckExists(w)

\* the move under the lock
LockedMove(w) ==
    /\ proc[w].pc = "move"
    /\ HoldsLock(w)
    /\ Move(w)

NextRace ==
    \E w \in Workers :
        \/ ValidateAndExtract(w)
        \/ CheckException(w)
        \/ ValidateMetadata(w)
        \/ SaveAttachment(w)
        \/ ExtractPod(w)
        \/ RouteAndName(w)
        \/ Acquire(w)
        \/ LockedCheckExists(w)
        \/ LockedMove(w)
        \/ Release(w)
        \/ Cleanup(w)

SpecRace == InitRace /\ [][NextRace]_vars

---------------------------------------------------------------------------
(* What the claims say of a page, stated without the loops of the code *)

\* the positions where pattern k matches on text t
MatchStarts(k, t) == {p \in 1..Len(t) : PATTERNS(k, t, p).e # 0}

\* what pattern k reports for its leftmost match on t
FirstCapture(k, t) ==
    LET m == PATTERNS(k, t, SetMin(MatchStarts(k, t)))
    IN  SubSeq(t, m.b, m.e)

HasPodPrefix(s) == startswith(s, <<"H", "U">>) \/ startswith(s, <<"3", "9">>)

\* pattern k has a match on t whose normalized first capture has a POD prefix
Yields(k, t) ==
    MatchStarts(k, t) # {} /\ HasPodPrefix(normalize_pod(FirstCapture(k, t)))

\* the normalized first match of the earliest pattern of K that yields
PageValue(t, K) ==
    IF \E k \in K : Yields(k, t)
    THEN normalize_pod(FirstCapture(SetMin({k \in K : Yields(k, t)}), t))
    ELSE NoneVal

AllPatterns == 1..NumPatterns

LabelPatterns == {1, 2}

\* the value of the first page, in index order, that has one
IndexScan(doc) ==
    IF \E i \in 1..Len(doc) : PageValue(doc[i], AllPatterns) # NoneVal
    THEN PageValue(doc[SetMin({i \in 1..Len(doc) :
                        PageValue(doc[i], AllPatterns) # NoneVal})], AllPatterns)
    ELSE NoneVal

UpperDigitHyphen == Range(UpperAZ) \cup Digit \cup {"-"}

WellFormedPod(s) ==
    /\ \A i \in 1..Len(s) : s[i] \in UpperDigitHyphen
    /\ \A i \in 1..(Len(s) - 1) : ~(s[i] = "-" /\ s[i + 1] = "-")
    /\ s # <<>> /\ s[1] # "-" /\ s[Len(s)] # "-"
    /\ HasPodPrefix(s)

\* the first two characters of s, case-insensitively, are w
PrefixCI(s, w) == Len(s) >= 2 /\ lower(SubSeq(s, 1, 2)) = w

---------------------------------------------------------------------------
(* Claims *)

\* C1 as stated: for a document of at least 2 pages whose page 2 has no
\* label-qualified match, locate returns the result of the index-order scan
\* from page 1, so a label-free match on page 2 never pre-empts page 1.
C1_LabelFreePage2NeverPreempts ==
    (/\ ppc = "done"
     /\ Len(pages) >= 2
     /\ MatchStarts(1, pages[2]) = {}
     /\ MatchStarts(2, pages[2]) = {})
    => located = IndexScan(pages)

\* C1 amended: the first look at page 2 uses all four patterns in their
\* fixed order: for a document of at least 2 pages, a value found on page 2
\* by any of the four patterns is the result, and only when page 2 has no
\* match of any of the four is the result that of the index-order scan
\* from page 1.
C1_Page2UsesAllPatterns ==
    (ppc = "done" /\ Len(pages) >= 2)
    => IF PageValue(pages[2], AllPatterns) # NoneVal
       THEN located = PageValue(pages[2], AllPatterns)
       ELSE located = IndexScan(pages)

\* a label-free match on page 2 is returned although page 1 holds another value
C1_Witness ==
    /\ ppc = "done"
    /\ Len(pages) >= 2
    /\ MatchStarts(1, pages[2]) = {}
    /\ MatchStarts(2, pages[2]) = {}
    /\ PageValue(pages[1], LabelPatterns) # NoneVal
    /\ located # PageValue(pages[1], AllPatterns)
    /\ located = PageValue(pages[2], {3, 4})
    /\ located # NoneVal

\* C2: for a document of at least 2 pages whose page 2 has an after-label
\* HU match, locate returns the normalized page-2 HU value, whatever the
\* other pages hold.
C2_Page2LabelHuWins ==
    (ppc = "done" /\ Len(pages) >= 2 /\ MatchStarts(1, pages[2]) # {})
    => located = normalize_pod(FirstCapture(1, pages[2]))

\* page 2 has an after-label HU match, page 1 an anywhere-39 match of
\* another value
C2_Witness ==
    /\ ppc = "done"
    /\ Len(pages) >= 2
    /\ MatchStarts(1, pages[2]) # {}
    /\ MatchStarts(4, pages[1]) # {}
    /\ PageValue(pages[1], AllPatterns) # located
    /\ located = normalize_pod(FirstCapture(1, pages[2]))

\* C3: on one page the patterns are tried in the order after-label HU,
\* after-label 39, anywhere HU, anywhere 39, each with its first match
\* alone; the page's result is the normalized first match of the earliest
\* pattern whose normalized capture begins with HU or 39; when no pattern
\* yields a value on any page, locate returns None.
C3_PatternOrderFirstMatch ==
    ppc = "done"
    => /\ \A i \in 1..Len(pages) :
            find_pod_in_text(pages[i]) = PageValue(pages[i], AllPatterns)
       /\ (\A i \in 1..Len(pages) : \A k \in AllPatterns : ~Yields(k, pages[i]))
            => located = NoneVal

\* a page where an anywhere-HU match comes first in the text, an after-label
\* 39 match later, and the after-label 39 value is the result
C3_Witness ==
    /\ ppc = "done"
    /\ Len(pages) = 1
    /\ MatchStarts(1, pages[1]) = {}
    /\ MatchStarts(2, pages[1]) # {}
    /\ MatchStarts(3, pages[1]) # {}
    /\ SetMin(MatchStarts(3, pages[1])) < SetMin(MatchStarts(2, pages[1]))
    /\ located = normalize_pod(FirstCapture(2, pages[1]))
    /\ located # normalize_pod(FirstCapture(3, pages[1]))

\* C9: every value the locator returns consists of uppercase letters,
\* digits and hyphens only, has no two adjacent hyphens, neither starts nor
\* ends with a hyphen, and begins with HU or 39.
C9_PodIdentifierShape ==
    (ppc = "done" /\ located # NoneVal) => WellFormedPod(located)

\* a returned value that differs from the text it was captured from
C9_Witness ==
    /\ ppc = "done"
    /\ located # NoneVal
    /\ \E i \in 1..Len(pages) : \E k \in AllPatterns :
          /\ Yields(k, pages[i])
          /\ ~WellFormedPod(FirstCapture(k, pages[i]))
          /\ located = normalize_pod(FirstCapture(k, pages[i]))

\* C10: POD normalization is idempotent on every string, and maps
\* "hu-12-34" to "HU-12-34", "HU--12" to "HU-12" and " HU 12 " to "HU12".
C10_NormalizeIdempotent ==
    /\ fpc = "normalize_pod twice" => res2 = res
    /\ (fpc \in {"normalize_pod", "normalize_pod twice"} /\ arg = Example1)
          => res = <<"H", "U", "-", "1", "2", "-", "3", "4">>
    /\ (fpc \in {"normalize_pod", "normalize_pod twice"} /\ arg = Example2)
          => res = <<"H", "U", "-", "1", "2">>
    /\ (fpc \in {"normalize_pod", "normalize_pod twice"} /\ arg = Example3)
          => res = <<"H", "U", "1", "2">>

\* a string that normalization changes in every way, normalized twice
C10_Witness ==
    /\ fpc = "normalize_pod twice"
    /\ arg = <<"-", "h", " ", "-">>
    /\ res = <<"H">>
    /\ res2 = <<"H">>

\* C7: routing is a total function of the POD alone: no destination for an
\* absent (None or empty) POD; otherwise, by the case-insensitive prefix,
\* HU gives ELECTRICITY, 39 gives GAS and any other prefix ELECTRICITY.
C7_RouteByPrefix ==
    fpc = "route_folder"
    => /\ arg \in {NoneVal, <<>>} => res = NoneVal
       /\ arg \notin {NoneVal, <<>>}
            => /\ res \in {OUT_ELECTRICITY, OUT_GAS}
               /\ PrefixCI(arg, <<"h", "u">>) => res = OUT_ELECTRICITY
               /\ PrefixCI(arg, <<"3", "9">>) => res = OUT_GAS
               /\ ~PrefixCI(arg, <<"3", "9">>) => res = OUT_ELECTRICITY
       /\ arg = ExampleHu => res = OUT_ELECTRICITY
       /\ arg = ExampleGas => res = OUT_GAS
       /\ arg = ExampleXx => res = OUT_ELECTRICITY

\* a POD of unknown prefix routed to ELECTRICITY
C7_Witness ==
    /\ fpc = "route_folder"
    /\ arg = ExampleXx
    /\ res = OUT_ELECTRICITY

---------------------------------------------------------------------------
(* What the claims say of a call of process_attachment *)

\* what the body of a message yields
Metadata(Body) ==
    Let(normalize_body_from_mailitem(Body, <<>>), LAMBDA email_body :
        [company_name |-> extract_company(email_body),
         invoice_number |-> extract_invoice(email_body)])

\* the bodies whose company name matches an exception keyword
ExceptionBodies == {b \in Bodies : is_exception_company(Metadata(b).company_name)}

\* the bodies that yield no company name or no invoice number
MissingBodies ==
    {b \in Bodies : ~Truthy(Metadata(b).company_name)
                    \/ ~Truthy(Metadata(b).invoice_number)}

IsPdf(attachment) == endswith(lower(attachment.FileName), <<".", "p", "d", "f">>)

\* the call has saved nothing, extracted no POD and built no name
NothingBuilt(p) ==
    /\ p.temp_dir = 0
    /\ p.pod_identifier = NoneVal
    /\ p.output_directory = NoneVal
    /\ p.output_path = NoneVal
    /\ p.final_path = NoneVal

\* a call for a message of an exception company goes no further than the
\* exception check and returns False
Withheld ==
    (proc[1].pc # "idle" /\ proc[1].message.Body \in ExceptionBodies)
        => /\ proc[1].pc \in {"step1", "step3", "return"}
           /\ NothingBuilt(proc[1])
           /\ proc[1].pc = "return" => ~proc[1].result

\* while main handles a message of an exception company, no file, directory
\* or temporary directory appears
NothingWrittenForException ==
    (mpc \in {"attachments", "call"} /\ message.Body \in ExceptionBodies)
        => fs' = fs /\ dirs' = dirs /\ temps' = temps

\* C4 as stated: a message of an exception company has every PDF attachment
\* withheld (the call stops at the exception check, before the check of the
\* metadata, the temporary file, the POD and the routing, and writes no
\* file), and when main is done with the message it is marked unread.
C4_ExceptionMessageMarkedUnread ==
    /\ [](Withheld
          /\ ((mpc = "messages" /\ message.Body \in ExceptionBodies)
                => mailbox.UnRead /\ mailbox.FlagStatus = 0))
    /\ [][NothingWrittenForException]_vars

\* C4 amended: a message of an exception company has every PDF attachment
\* withheld (the call stops at the exception check, before the check of the
\* metadata, the temporary file, the POD and the routing, and writes no
\* file); each call for a PDF attachment calls mark_unread, which leaves
\* the message unread with its flag cleared when Outlook accepts the
\* change, and drops the exception when it does not.  A message without PDF
\* attachment is not marked.
C4_ExceptionWithheld ==
    /\ [](Withheld
          /\ ((/\ proc[1].pc = "return"
               /\ proc[1].message.Body \in ExceptionBodies
               /\ IsPdf(proc[1].attachment))
                => /\ proc[1].unread # NotCalled
                   /\ proc[1].unread = MarkStatements
                        => mailbox.UnRead /\ mailbox.FlagStatus = 0))
    /\ [][NothingWrittenForException]_vars

\* the call for a PDF with a POD, of a read and flagged message of an
\* exception company without invoice number, has returned and the message
\* is unread with its flag cleared
C4_Witness ==
    /\ proc[1].pc = "return"
    /\ proc[1].message.Body = GreetException
    /\ proc[1].attachment = [FileName |-> PdfName, content |-> DocHu]
    /\ proc[1].invoice_number = NoneVal
    /\ proc[1].unread = MarkStatements
    /\ mailbox = [UnRead |-> TRUE, FlagStatus |-> 0]
    /\ ~proc[1].result

\* a call for a message without company name or invoice number goes no
\* further than the validation of the metadata and returns False
Blocked ==
    (proc[1].pc # "idle" /\ proc[1].message.Body \in MissingBodies)
        => /\ proc[1].pc \in {"step1", "step3", "required", "return"}
           /\ NothingBuilt(proc[1])
           /\ proc[1].pc = "return" => ~proc[1].result

\* C8: for an attachment of a message whose body yields no company name or
\* no invoice number, no file name is built, no temporary directory or file
\* is created, nothing is written to a destination, the call returns False
\* and no exception leaves it.
C8_MissingMetadataBlocks ==
    /\ [](Blocked /\ (message.Body \in MissingBodies => mpc # "crashed"))
    /\ [][(mpc = "call" /\ message.Body \in MissingBodies)
            => fs' = fs /\ dirs' = dirs /\ temps' = temps]_vars

\* the call for a PDF with a POD has returned False for a greeting with an
\* empty company name and a present invoice number
C8_Witness ==
    /\ proc[1].pc = "return"
    /\ proc[1].attachment = [FileName |-> PdfName, content |-> DocHu]
    /\ proc[1].company_name = <<>>
    /\ Truthy(proc[1].invoice_number)
    /\ ~proc[1].result
    /\ temps = << >>

\* "{directory}\{sanitizedCompany}_{pod}_{invoice}.pdf" for n = 0, and with
\* " (n)" before ".pdf" otherwise
CandidateName(p, n) ==
    p.output_directory \o <<"\\">> \o safe_filename(p.company_name) \o <<"_">>
        \o p.pod_identifier \o <<"_">> \o p.invoice_number
        \o (IF n = 0 THEN <<>> ELSE <<" ", "(">> \o DecStr(n) \o <<")">>)
        \o <<".", "p", "d", "f">>

\* the first candidate, in the order 0, 1, 2, ..., that names no file
FirstFreeName(files, p) ==
    CandidateName(p, SetMin({n \in 0..Cardinality(DOMAIN files) :
                                CandidateName(p, n) \notin DOMAIN files}))

\* C5: when the file is about to be moved, the final path is the base path
\* when no file exists there, and otherwise the base path with " (n)" before
\* ".pdf" for the smallest n >= 1 that names no file; it names no existing
\* file, and in sequential use no file of a destination is ever replaced.
C5_CollisionPolicy ==
    /\ proc[1].pc = "move"
        => /\ proc[1].final_path = FirstFreeName(fs, proc[1])
           /\ proc[1].final_path \notin DOMAIN fs
    /\ \A q \in DOMAIN fs : fs[q] = 1

\* a third filing of the same name: base and " (1)" exist, " (2)" is chosen
C5_Witness ==
    /\ proc[1].pc = "move"
    /\ proc[1].output_path \in DOMAIN fs
    /\ Numbered(proc[1].output_path, 1) \in DOMAIN fs
    /\ proc[1].final_path = CandidateName(proc[1], 2)

\* worker w has settled on its final path
Settled(w) == proc[w].pc \in {"move", "rmtree", "return"} /\ Truthy(proc[w].final_path)

\* C6: when the check-and-move of each worker is serialized per destination,
\* no two workers settle on the same final path and no file is replaced;
\* without serialization there is an interleaving in which both workers
\* compute the same final path and one file replaces the other (C6_Witness).
C6_SerializedNoRace ==
    serialized
        => /\ ~(Settled(1) /\ Settled(2) /\ proc[1].final_path = proc[2].final_path)
           /\ \A q \in DOMAIN fs : fs[q] = 1

\* without serialization both workers have filed under the same final path,
\* and the file of the one has replaced the file of the other
C6_Witness ==
    /\ ~serialized
    /\ proc[1].pc = "return" /\ proc[1].result
    /\ proc[2].pc = "return" /\ proc[2].result
    /\ proc[1].final_path = proc[2].final_path
    /\ fs[proc[1].final_path] = 2

---------------------------------------------------------------------------
(* What the claims say of a company name *)

\* two characters that differ at most in case
SameLetter(a, b) ==
    \/ a = b
    \/ \E i \in DOMAIN LowerAZ : {a, b} = {LowerAZ[i], UpperAZ[i]}

\* w occurs in s at position i, case aside
OccursAt(s, w, i) ==
    /\ i + Len(w) - 1 <= Len(s)
    /\ \A j \in 1..Len(w) : SameLetter(s[i + j - 1], w[j])

---------------------------------------------------------------------------
(* The normalized body *)

\* the plain body of a message, trimmed (empty: the markup is used)
PlainOf(msg) == strip(IF Truthy(msg.Body) THEN msg.Body ELSE <<>>)

NoCarriageReturn(s) == \A i \in 1..Len(s) : s[i] # "\r"

Trimmed(s) == s = <<>> \/ (~IsSpace(s[1]) /\ ~IsSpace(s[Len(s)]))

IsHorizontal(c) == c \in {" ", "\t", Nbsp}

\* no two horizontal whitespace characters next to each other
NoHorizontalRun(s) ==
    \A i \in 1..(Len(s) - 1) : ~(IsHorizontal(s[i]) /\ IsHorizontal(s[i + 1]))

\* no two blank lines in a row: no stretch of whitespace holds three "\n"
AtMostOneBlankLine(s) ==
    \A i, k \in 1..Len(s) :
        (i < k /\ \A m \in i..k : IsSpace(s[m]))
            => Cardinality({m \in i..k : s[m] = "\n"}) < 3

C13_IdempotentOnPlainText ==
    /\ fpc = "normalize_body twice" /\ PlainOf(arg) # <<>> => res2 = res
    /\ (fpc = "normalize_body"
            /\ arg.Body \in {<<>>, NoneVal} /\ arg.HTMLBody \in {<<>>, NoneVal})
        => res = <<>>

\* C13 witness: a plain body with a blank before it and a "\r" inside has
\* been normalized twice
C13_Witness ==
    /\ fpc = "normalize_body twice"
    /\ arg = [Body |-> <<" ", "a", "\r", "a">>, HTMLBody |-> <<>>]
    /\ res = <<"a", "\n", "a">>
    /\ res2 = res

---------------------------------------------------------------------------
(* The sanitized company name *)

\* no two whitespace characters next to each other
NoWhitespaceRun(s) ==
    \A i \in 1..(Len(s) - 1) : ~(IsSpace(s[i]) /\ IsSpace(s[i + 1]))

---------------------------------------------------------------------------
(* The marks of a message after its attachments *)

\* read, flag completed
Processed == [UnRead |-> FALSE, FlagStatus |-> 2]

\* the step with which main leaves the attachments of the message
LeavesMessage ==
    /\ mpc \in {"attachments", "call"}
    /\ mpc' \in {"messages", "crashed"}

\* C15 as stated: when main is through with a message, the message is read
\* with its flag completed if and only if one of its attachments was saved;
\* the marks of a message with no saved attachment and no exception company
\* never change, and a message of an exception company is never set to read.
C15_ProcessedIffSaved ==
    [][/\ LeavesMessage => ((mailbox' = Processed) <=> had_successful_save)
       /\ (/\ message' = message
           /\ message.Body \notin ExceptionBodies
           /\ ~had_successful_save) => mailbox' = mailbox
       /\ (message' = message /\ message.Body \in ExceptionBodies)
            => /\ ~had_successful_save'
               /\ mailbox' # mailbox => mailbox'.UnRead]_vars

\* C15 amended: the marks of a message change to read only after one of its
\* attachments was saved; when the loop over its attachments ends after a
\* save, the message is set to read and then to flag completed as far as
\* Outlook accepts the changes, and is left as it was where Outlook refuses;
\* the marks of a message with no saved attachment and no exception company
\* never change, and a message of an exception company is never set to read.
C15_ProcessedOnlyAfterSave ==
    [][/\ (message' = message /\ mailbox' # mailbox /\ ~mailbox'.UnRead)
            => had_successful_save
       /\ (mpc = "attachments" /\ mpc' = "messages" /\ had_successful_save)
            => \/ mailbox' = mailbox
               \/ /\ ~mailbox'.UnRead
                  /\ mailbox'.FlagStatus \in {2, mailbox.FlagStatus}
       /\ (/\ message' = message
           /\ message.Body \notin ExceptionBodies
           /\ ~had_successful_save) => mailbox' = mailbox
       /\ (message' = message /\ message.Body \in ExceptionBodies)
            => /\ ~had_successful_save'
               /\ mailbox' # mailbox => mailbox'.UnRead]_vars

\* C15 witness: main is through with a message one of whose attachments was
\* saved, and the message is read with its flag completed
C15_Witness ==
    /\ mpc = "messages"
    /\ message.Body = GreetPlain \o InvoiceSentence
    /\ had_successful_save
    /\ mailbox = Processed
    /\ fs # << >>

---------------------------------------------------------------------------
(* The temporary directory of a call *)

\* C16: whenever process_attachment has finished after creating its temporary
\* directory, the directory is gone, and the call has returned to the loop
\* of main, which goes on with the later attachments and messages.
C16_TempRemovedFailureSkips ==
    /\ (proc[1].pc \in {"return", "raised"} /\ proc[1].temp_dir # 0)
            => proc[1].temp_dir \notin DOMAIN temps
    /\ proc[1].pc # "raised"
    /\ mpc # "crashed"

\* C16, the failing run: shutil.move has raised, main has ended with
\* attachments left to handle, and the temporary directory still holds the
\* saved file
C16_Witness ==
    /\ mpc = "crashed"
    /\ todo > 0
    /\ \E n \in DOMAIN temps : temps[n] = {PdfName}

============================================================================
